---- MODULE Spec2Model ----
(***************************************************************************)
(* Model of the RAG pipelines of raynarg/Sistema-RAG:                      *)
(*   RAGPipeline        (src/rag_pipeline.py)   step-wise pipeline         *)
(*   SimpleRAGPipeline  (src/Sistema-RAG/rag.py) all-in-one pipeline       *)
(* Texts are sequences of one-character strings.  An optional value (a     *)
(* Python attribute that may be None) is a sequence of length 0 or 1.      *)
(***************************************************************************)
EXTENDS Integers, Sequences, FiniteSets, TLC

(* ---------- bounds of the model ---------- *)
\* most entries a Chroma collection may hold before ingestion is cut off
MaxEntries == 4
\* most Chroma handles (vector stores) the RAGPipeline may create
MaxStores == 2
\* most SimpleRAGPipeline objects constructed
MaxSimple == 2

(* ---------- optional values ---------- *)
None == <<>>
Some(v) == <<v>>
IsNone(x) == x = <<>>
Get(x) == x[1]

(* ---------- text helpers ---------- *)
RECURSIVE Join(_, _)
\* sep.join(parts)
Join(parts, sep) ==
  IF parts = <<>> THEN <<>>
  ELSE IF Len(parts) = 1 THEN parts[1]
  ELSE parts[1] \o sep \o Join(Tail(parts), sep)

Whitespace == {" ", "\n"}

RECURSIVE LStrip(_)
LStrip(t) ==
  IF t # <<>> /\ Head(t) \in Whitespace THEN LStrip(Tail(t)) ELSE t

RECURSIVE RStrip(_)
RStrip(t) ==
  IF t # <<>> /\ t[Len(t)] \in Whitespace
  THEN RStrip(SubSeq(t, 1, Len(t) - 1)) ELSE t

\* str.strip()
Strip(t) == RStrip(LStrip(t))

\* does sep occur in text at position i
MatchAt(text, sep, i) ==
  /\ sep # <<>>
  /\ i + Len(sep) - 1 <= Len(text)
  /\ SubSeq(text, i, i + Len(sep) - 1) = sep

\* re.search(sep, text)
Contains(text, sep) == \E i \in 1..Len(text) : MatchAt(text, sep, i)

SelectNonEmpty(parts) == SelectSeq(parts, LAMBDA p : p # <<>>)

RECURSIVE SplitScan(_, _, _, _, _)
SplitScan(text, sep, i, cur, acc) ==
  IF i > Len(text) THEN Append(acc, cur)
  ELSE IF MatchAt(text, sep, i)
       THEN SplitScan(text, sep, i + Len(sep), sep, Append(acc, cur))
       ELSE SplitScan(text, sep, i + 1, Append(cur, text[i]), acc)

\* _split_text_with_regex(text, separator, keep_separator=True): every piece
\* after the first starts with the separator; empty pieces are dropped
SplitWithRegex(text, sep) ==
  IF sep = <<>> THEN [i \in 1..Len(text) |-> <<text[i]>>]
  ELSE SelectNonEmpty(SplitScan(text, sep, 1, <<>>, <<>>))

(* ---------- RecursiveCharacterTextSplitter ---------- *)
\* separators=["\n\n", "\n", " ", ""]
Separators == << <<"\n", "\n">>, <<"\n">>, <<" ">>, <<>> >>

\* _join_docs: join, strip; None when nothing is left
JoinDocs(docs, sep) == Strip(Join(docs, sep))

SepLen(sep, n, least) == IF n > least THEN Len(sep) ELSE 0

RECURSIVE PopWhile(_, _, _, _, _, _)
\* the while loop of _merge_splits that drops leading pieces of current_doc
PopWhile(cur, total, len, sep, size, overlap) ==
  IF \/ total > overlap
     \/ (total + len + SepLen(sep, Len(cur), 0) > size /\ total > 0)
  THEN PopWhile(Tail(cur), total - (Len(cur[1]) + SepLen(sep, Len(cur), 1)),
                len, sep, size, overlap)
  ELSE [cur |-> cur, total |-> total]

RECURSIVE MergeLoop(_, _, _, _, _, _, _)
MergeLoop(splits, sep, size, overlap, docs, cur, total) ==
  IF splits = <<>>
  THEN IF JoinDocs(cur, sep) # <<>> THEN Append(docs, JoinDocs(cur, sep)) ELSE docs
  ELSE LET d == Head(splits)
           len == Len(d)
           over == total + len + SepLen(sep, Len(cur), 0) > size
           flush == over /\ Len(cur) > 0
           docs2 == IF flush /\ JoinDocs(cur, sep) # <<>>
                    THEN Append(docs, JoinDocs(cur, sep)) ELSE docs
           popped == IF flush THEN PopWhile(cur, total, len, sep, size, overlap)
                     ELSE [cur |-> cur, total |-> total]
           cur2 == Append(popped.cur, d)
           total2 == popped.total + len + SepLen(sep, Len(cur2), 1)
       IN MergeLoop(Tail(splits), sep, size, overlap, docs2, cur2, total2)

\* all the pieces joined into one document, whatever their total length
MergeSplitsWhole(splits, sep, size, overlap) ==
  IF JoinDocs(splits, sep) # <<>> THEN <<JoinDocs(splits, sep)>> ELSE <<>>

\* TextSplitter._merge_splits(splits, separator)
MergeSplits(splits, sep, size, overlap) ==
  MergeLoop(splits, sep, size, overlap, <<>>, <<>>, 0)

\* index of the first separator that occurs in text (the last one, "", always does)
RECURSIVE PickSeparator(_, _, _)
PickSeparator(text, seps, i) ==
  IF i >= Len(seps) \/ seps[i] = <<>> \/ Contains(text, seps[i]) THEN i
  ELSE PickSeparator(text, seps, i + 1)

RECURSIVE SplitText(_, _, _, _)
RECURSIVE SplitPieces(_, _, _, _, _, _)
\* the loop over splits of RecursiveCharacterTextSplitter._split_text
SplitPieces(splits, rest, size, overlap, good, final) ==
  IF splits = <<>>
  THEN IF good # <<>> THEN final \o MergeSplits(good, <<>>, size, overlap) ELSE final
  ELSE LET s == Head(splits) IN
       IF Len(s) < size
       THEN SplitPieces(Tail(splits), rest, size, overlap, Append(good, s), final)
       ELSE LET merged == IF good # <<>>
                          THEN final \o MergeSplits(good, <<>>, size, overlap)
                          ELSE final
                sub == IF rest = <<>> THEN <<s>> ELSE SplitText(s, rest, size, overlap)
            IN SplitPieces(Tail(splits), rest, size, overlap, <<>>, merged \o sub)

\* RecursiveCharacterTextSplitter._split_text(text, separators)
SplitText(text, seps, size, overlap) ==
  LET i == PickSeparator(text, seps, 1)
      sep == seps[i]
      rest == IF sep = <<>> THEN <<>> ELSE SubSeq(seps, i + 1, Len(seps))
  IN SplitPieces(SplitWithRegex(text, sep), rest, size, overlap, <<>>, <<>>)

(* ---------- documents, chunks ---------- *)
\* the PDF files the pipelines may be pointed at: each a sequence of page texts
PDFs == { << <<"a", "a", " ", "b">> >>,
          << <<"a", "b">>, <<"b", " ", "a", " ", "b">> >>,
          << <<" ">> >> }

\* chunk_size / chunk_overlap defaults of split_text and initialize
DefaultChunkSize == 1000
DefaultChunkOverlap == 100

\* the (chunk_size, chunk_overlap) arguments callers pass
Configs == { <<DefaultChunkSize, DefaultChunkOverlap>>, <<3, 1>>, <<2, 2>>, <<2, 3>> }

\* TextSplitter.__init__ rejects chunk_overlap > chunk_size
ValidConfig(size, overlap) == ~(overlap > size)

\* the chunks of one page: Documents carrying the page's metadata
PageChunks(text, page, size, overlap) ==
  LET texts == SplitText(text, Separators, size, overlap)
  IN [i \in 1..Len(texts) |->
        [page_content |-> texts[i], page |-> page, offset |-> i]]

RECURSIVE SplitFrom(_, _, _, _)
SplitFrom(docs, p, size, overlap) ==
  IF p > Len(docs) THEN <<>>
  ELSE PageChunks(docs[p], p, size, overlap) \o SplitFrom(docs, p + 1, size, overlap)

\* TextSplitter.split_documents(documents)
SplitDocuments(docs, size, overlap) == SplitFrom(docs, 1, size, overlap)

(* ---------- embeddings and retrieval ---------- *)
Count(text, c) == Cardinality({i \in 1..Len(text) : text[i] = c})

\* the embedding function: a fixed-dimension vector per text
Embed(text) == <<Count(text, "a"), Count(text, "b")>>

\* squared L2 distance, Chroma's default metric
Distance(u, v) ==
  (u[1] - v[1]) * (u[1] - v[1]) + (u[2] - v[2]) * (u[2] - v[2])

\* an entry of the collection: a document and its embedding
Entry(doc) == [doc |-> doc, embedding |-> Embed(doc.page_content)]

\* the collection of the directory is created anew
AddDocumentsFresh(coll, docs) == [i \in 1..Len(docs) |-> Entry(docs[i])]

\* Chroma.from_documents adds the documents, embedded, to the collection of
\* the directory
AddDocuments(coll, docs) == coll \o [i \in 1..Len(docs) |-> Entry(docs[i])]

\* search_kwargs={"k": 3}
K == 3

Min(a, b) == IF a < b THEN a ELSE b

\* the retriever returns one result too many
TopKPlusOne(coll, question, k) ==
  LET q == Embed(question)
      d == [i \in 1..Len(coll) |-> Distance(q, coll[i].embedding)]
      rank == [i \in 1..Len(coll) |->
                 Cardinality({j \in 1..Len(coll) :
                                d[j] < d[i] \/ (d[j] = d[i] /\ j < i)})]
  IN [r \in 1..Min(k + 1, Len(coll)) |->
        coll[CHOOSE i \in 1..Len(coll) : rank[i] = r - 1].doc]

\* similarity search: the documents of the k entries nearest to the question,
\* nearest first, equal distances in insertion order
TopK(coll, question, k) ==
  LET q == Embed(question)
      d == [i \in 1..Len(coll) |-> Distance(q, coll[i].embedding)]
      rank == [i \in 1..Len(coll) |->
                 Cardinality({j \in 1..Len(coll) :
                                d[j] < d[i] \/ (d[j] = d[i] /\ j < i)})]
  IN [r \in 1..Min(k, Len(coll)) |->
        coll[CHOOSE i \in 1..Len(coll) : rank[i] = r - 1].doc]

Questions == { <<"a">>, <<"b">> }

\* what the generation model may answer
LLMOutputs == { "R1", "R2" }

(* ---------- prompt assembly ---------- *)
BlankLine == <<"\n", "\n">>

PageContents(docs) == [i \in 1..Len(docs) |-> docs[i].page_content]

\* the chunks are joined by a single line break
ContextSingleBreak(docs) == Join(PageContents(docs), <<"\n">>)

\* "\n\n".join([doc.page_content for doc in source_documents])
Context(docs) == Join(PageContents(docs), BlankLine)

PromptHead == "Utiliza el siguiente contexto para responder a la pregunta. Si no sabes la respuesta basandote en el contexto, di que no lo sabes.\n\nContexto:\n"
PromptQuestion == "\n\nPregunta: "
PromptTail == "\n\nRespuesta:"

\* the f-string prompt of SimpleRAGPipeline.query
Prompt(docs, question) ==
  <<PromptHead>> \o Context(docs) \o <<PromptQuestion>> \o question \o <<PromptTail>>

StuffHead == "Use the following pieces of context to answer the user's question.\n----------------\n"

\* the "stuff" chain of RetrievalQA: the documents joined by a blank line,
\* then the question
StuffPrompt(docs, question) ==
  <<StuffHead>> \o Context(docs) \o <<"\n">> \o question

(* ---------- state ---------- *)
VARIABLES
  program,            \* the script that runs: rag_pipeline.py or rag.py
  pdf,                \* the file at pdf_path
  documents,          \* RAGPipeline.documents
  text_chunks,        \* RAGPipeline.text_chunks
  vectorstore,        \* RAGPipeline.vectorstore: a handle on the collection
  qa_chain,           \* RAGPipeline.qa_chain
  collection,         \* the Chroma collection under persist_directory / db_path
  batch,              \* Chroma.from_documents in progress: chunks still to add
  pc,                 \* where the caller of RAGPipeline is
  init,               \* the initialize call in progress, or the one finished last
                      \* if no ingest step was called since
  last,               \* outcome of the last method call
  simple,             \* the SimpleRAGPipeline object, once constructed
  simple_count        \* SimpleRAGPipeline constructor calls so far

vars == <<program, pdf, documents, text_chunks, vectorstore, qa_chain, collection,
          batch, pc, init, last, simple, simple_count>>

rag_fields == <<documents, text_chunks, vectorstore, qa_chain>>
simple_vars == <<simple, simple_count>>

(* ---------- errors ---------- *)
ErrLoadFirst == "ValueError: Primero debes cargar el PDF usando load_pdf()"
ErrSplitFirst == "ValueError: Primero debes fragmentar el texto usando split_text()"
ErrStoreFirst == "ValueError: Primero debes crear el vectorstore usando create_vectorstore()"
ErrChainFirst == "ValueError: Primero debes configurar la cadena QA. Ejecuta initialize() o setup_qa_chain()"
ErrOverlap == "ValueError: Got a larger chunk overlap than chunk size"
ErrEmptyIds == "ValueError: Expected IDs to be a non-empty list, got []"
ErrLoader == "loader error"
ErrEmbedding == "embedding error"
ErrGeneration == "generation error"

(* ---------- call records ---------- *)
NoBatch == [todo |-> <<>>, done |-> 0, total |-> 0]

NoCall ==
  [op |-> "", err |-> "", question |-> <<>>, source_documents |-> <<>>,
   prompt |-> <<>>, llm_out |-> "", response |-> None,
   retriever_calls |-> 0, llm_calls |-> 0, batch_done |-> 0, batch_total |-> 0,
   cfg |-> <<0, 0>>]

Outcome(op, err) == [NoCall EXCEPT !.op = op, !.err = err]

\* the lifecycle state the attributes of the pipeline stand for
State ==
  IF ~IsNone(qa_chain) THEN "Ready"
  ELSE IF ~IsNone(vectorstore) THEN "Indexed"
  ELSE IF ~IsNone(text_chunks) THEN "Chunked"
  ELSE IF ~IsNone(documents) THEN "DocumentLoaded"
  ELSE "Uninitialized"

\* the fields and the number of stored entries (the collection only grows)
\* as initialize finds them
NoBefore ==
  [documents |-> None, text_chunks |-> None, vectorstore |-> None,
   qa_chain |-> None, entries |-> 0]

Before ==
  [documents |-> documents, text_chunks |-> text_chunks, vectorstore |-> vectorstore,
   qa_chain |-> qa_chain, entries |-> Len(collection)]

NoInit == [from |-> "", status |-> "none", cfg |-> <<0, 0>>, before |-> NoBefore]

Status(err) == IF err = "" THEN "returned" ELSE "raised"

\* RAGPipeline.__init__ in rag_pipeline.py; nothing constructed yet in rag.py
Init ==
  /\ program \in {"rag_pipeline.py", "rag.py"}
  /\ pdf \in PDFs
  /\ documents = None
  /\ text_chunks = None
  /\ vectorstore = None
  /\ qa_chain = None
  /\ collection = <<>>
  /\ batch = NoBatch
  /\ pc = "idle"
  /\ init = NoInit
  /\ last = Outcome("", "")
  /\ simple = None
  /\ simple_count = 0

(* ---------- RAGPipeline methods ---------- *)
\* a failed load leaves self.documents empty
load_pdf_clearing(ok) ==
  /\ documents' = IF ok THEN Some(pdf) ELSE None
  /\ last' = Outcome("load_pdf", IF ok THEN "" ELSE ErrLoader)
  /\ UNCHANGED <<program, pdf, text_chunks, vectorstore, qa_chain, collection, batch, pc>>
  /\ UNCHANGED simple_vars

\* load_pdf: loader.load() either returns the pages or raises
load_pdf(ok) ==
  /\ documents' = IF ok THEN Some(pdf) ELSE documents
  /\ last' = Outcome("load_pdf", IF ok THEN "" ELSE ErrLoader)

\* the splitter is built before documents is looked at
split_error_config_first(size, overlap) ==
  IF ~ValidConfig(size, overlap) THEN ErrOverlap
  ELSE IF IsNone(documents) THEN ErrLoadFirst
  ELSE ""

split_error(size, overlap) ==
  IF IsNone(documents) THEN ErrLoadFirst
  ELSE IF ~ValidConfig(size, overlap) THEN ErrOverlap
  ELSE ""

\* text_chunks is cleared before the new chunks are computed
split_text_clearing(size, overlap) ==
  /\ text_chunks' = IF split_error(size, overlap) = ""
                    THEN Some(SplitDocuments(Get(documents), size, overlap))
                    ELSE None
  /\ last' = [Outcome("split_text", split_error(size, overlap)) EXCEPT
                !.cfg = <<size, overlap>>]

\* split_text(chunk_size, chunk_overlap)
split_text(size, overlap) ==
  /\ text_chunks' = IF split_error(size, overlap) = ""
                    THEN Some(SplitDocuments(Get(documents), size, overlap))
                    ELSE text_chunks
  /\ last' = [Outcome("split_text", split_error(size, overlap)) EXCEPT
                !.cfg = <<size, overlap>>]

\* a new Chroma object on persist_directory
NewStore == (IF IsNone(vectorstore) THEN 0 ELSE Get(vectorstore)) + 1

\* create_vectorstore up to the call of Chroma.from_documents. With no chunks
\* from_documents adds one empty batch: the installed chromadb either rejects
\* the empty id list (accepts_empty false) or stores nothing and returns
create_vectorstore_begin(accepts_empty) ==
  IF IsNone(text_chunks)
  THEN /\ last' = Outcome("create_vectorstore", ErrSplitFirst)
       /\ UNCHANGED <<vectorstore, collection, batch>>
  ELSE IF Get(text_chunks) = <<>>
  THEN IF accepts_empty
       THEN /\ vectorstore' = Some(NewStore)
            /\ last' = Outcome("create_vectorstore", "")
            /\ UNCHANGED <<collection, batch>>
       ELSE /\ last' = Outcome("create_vectorstore", ErrEmptyIds)
            /\ UNCHANGED <<vectorstore, collection, batch>>
  ELSE /\ batch' = [todo |-> Get(text_chunks), done |-> 0,
                    total |-> Len(Get(text_chunks))]
       /\ last' = Outcome("OpenAIEmbeddings", "")
       /\ UNCHANGED <<vectorstore, collection>>

\* Chroma.from_documents adds the next n documents; after the last ones the
\* store is assigned to self.vectorstore
create_vectorstore_add(n) ==
  /\ collection' = AddDocuments(collection, SubSeq(batch.todo, 1, n))
  /\ IF n = Len(batch.todo)
     THEN /\ batch' = NoBatch
          /\ vectorstore' = Some(NewStore)
          /\ last' = Outcome("create_vectorstore", "")
     ELSE /\ batch' = [batch EXCEPT !.todo = SubSeq(batch.todo, n + 1, Len(batch.todo)),
                                    !.done = batch.done + n]
          /\ last' = Outcome("Chroma.add_texts", "")
          /\ UNCHANGED vectorstore

\* the embedding call of the next documents raises
create_vectorstore_fail ==
  /\ batch' = NoBatch
  /\ last' = Outcome("create_vectorstore", ErrEmbedding)
  /\ UNCHANGED <<vectorstore, collection>>

\* the retriever setup_qa_chain builds on the current vectorstore
NewChain == [retriever |-> Get(vectorstore), k |-> K]

\* setup_qa_chain()
setup_qa_chain ==
  /\ qa_chain' = IF IsNone(vectorstore) THEN qa_chain ELSE Some(NewChain)
  /\ last' = Outcome("setup_qa_chain", IF IsNone(vectorstore) THEN ErrStoreFirst ELSE "")

\* the sources are returned last-retrieved first
ResponseReversed(question, result, docs) ==
  [query |-> question, result |-> result,
   source_documents |-> [i \in 1..Len(docs) |-> docs[Len(docs) + 1 - i]]]

\* the dict a question-answering call returns
Response(question, result, docs) ==
  [query |-> question, result |-> result, source_documents |-> docs]

\* a failed generation is attempted a second time before the error is raised
AnsweredRetry(op, docs, question, prompt, out) ==
  IF out = ErrGeneration
  THEN [Outcome(op, out) EXCEPT !.question = question, !.retriever_calls = 1,
           !.source_documents = docs, !.prompt = prompt, !.llm_calls = 2]
  ELSE [Outcome(op, "") EXCEPT !.question = question, !.retriever_calls = 1,
           !.source_documents = docs, !.prompt = prompt, !.llm_calls = 1,
           !.llm_out = out, !.response = Some(Response(question, out, docs))]

\* a question answered from the retrieved docs: prompt, generation, response.
\* out is the generation model's answer, or the error it raises
Answered(op, docs, question, prompt, out) ==
  IF out = ErrGeneration
  THEN [Outcome(op, out) EXCEPT !.question = question, !.retriever_calls = 1,
           !.source_documents = docs, !.prompt = prompt, !.llm_calls = 1]
  ELSE [Outcome(op, "") EXCEPT !.question = question, !.retriever_calls = 1,
           !.source_documents = docs, !.prompt = prompt, !.llm_calls = 1,
           !.llm_out = out, !.response = Some(Response(question, out, docs))]

LlmOutcomes == LLMOutputs \cup {ErrGeneration}

\* the chain answers from the documents retrieved for the previous query
ChainInvokeCached(question, out) ==
  LET docs == IF last.op = "query" /\ last.retriever_calls = 1
              THEN last.source_documents
              ELSE TopK(collection, question, Get(qa_chain).k)
  IN Answered("query", docs, question, StuffPrompt(docs, question), out)

\* what qa_chain.invoke does: retrieve k documents, stuff them into the prompt,
\* generate
ChainInvoke(question, out) ==
  LET docs == TopK(collection, question, Get(qa_chain).k)
  IN Answered("query", docs, question, StuffPrompt(docs, question), out)

\* the guard looks at vectorstore: with no chain the call fails on None
query_wrong_guard(question, out) ==
  last' = IF IsNone(vectorstore)
          THEN Outcome("query", ErrChainFirst)
          ELSE IF IsNone(qa_chain)
          THEN Outcome("query", "AttributeError: 'NoneType' object has no attribute 'invoke'")
          ELSE [ChainInvoke(question, out)
                EXCEPT !.batch_done = batch.done, !.batch_total = batch.total]

\* query(question)
query(question, out) ==
  last' = IF IsNone(qa_chain)
          THEN Outcome("query", ErrChainFirst)
          ELSE [ChainInvoke(question, out)
                EXCEPT !.batch_done = batch.done, !.batch_total = batch.total]

(* ---------- the caller of RAGPipeline ---------- *)
Fits(chunks) ==
  /\ Len(collection) + Len(chunks) <= MaxEntries
  /\ NewStore <= MaxStores

LoadPdf ==
  /\ program = "rag_pipeline.py" /\ pc = "idle"
  /\ \E ok \in BOOLEAN : load_pdf(ok)
  /\ init' = NoInit
  /\ UNCHANGED <<program, pdf, text_chunks, vectorstore, qa_chain, collection, batch, pc>>
  /\ UNCHANGED simple_vars

SplitTextCall ==
  /\ program = "rag_pipeline.py" /\ pc = "idle"
  /\ \E cfg \in Configs : split_text(cfg[1], cfg[2])
  /\ init' = NoInit
  /\ UNCHANGED <<program, pdf, documents, vectorstore, qa_chain, collection, batch, pc>>
  /\ UNCHANGED simple_vars

CreateVectorstore ==
  /\ program = "rag_pipeline.py" /\ pc = "idle"
  /\ IF IsNone(text_chunks) THEN TRUE ELSE Fits(Get(text_chunks))
  /\ \E accepts_empty \in BOOLEAN : create_vectorstore_begin(accepts_empty)
  /\ pc' = IF batch' = NoBatch THEN "idle" ELSE "vs_add"
  /\ init' = NoInit
  /\ UNCHANGED <<program, pdf, documents, text_chunks, qa_chain>>
  /\ UNCHANGED simple_vars

\* inside Chroma.from_documents, called by create_vectorstore
VsAdd ==
  /\ pc = "vs_add"
  /\ \E n \in 1..Len(batch.todo) : create_vectorstore_add(n)
  /\ pc' = IF batch' # NoBatch THEN "vs_add"
           ELSE IF init.status = "running" THEN "init_qa" ELSE "idle"
  /\ UNCHANGED <<program, pdf, documents, text_chunks, qa_chain, init>>
  /\ UNCHANGED simple_vars

VsFail ==
  /\ pc = "vs_add"
  /\ create_vectorstore_fail
  /\ pc' = "idle"
  /\ init' = IF init.status = "running" THEN [init EXCEPT !.status = "raised"] ELSE init
  /\ UNCHANGED <<program, pdf, documents, text_chunks, qa_chain>>
  /\ UNCHANGED simple_vars

SetupQaChain ==
  /\ program = "rag_pipeline.py" /\ pc = "idle"
  /\ setup_qa_chain
  /\ init' = NoInit
  /\ UNCHANGED <<program, pdf, documents, text_chunks, vectorstore, collection, batch, pc>>
  /\ UNCHANGED simple_vars

Query ==
  /\ program = "rag_pipeline.py" /\ pc = "idle"
  /\ \E question \in Questions, out \in LlmOutcomes : query(question, out)
  /\ UNCHANGED <<program, pdf, collection, batch, pc, init>>
  /\ UNCHANGED rag_fields
  /\ UNCHANGED simple_vars

(* initialize(chunk_size, chunk_overlap): its four calls, one step each *)
Initialize ==
  /\ program = "rag_pipeline.py" /\ pc = "idle"
  /\ \E cfg \in Configs, ok \in BOOLEAN :
       /\ ValidConfig(cfg[1], cfg[2]) => Fits(SplitDocuments(pdf, cfg[1], cfg[2]))
       /\ load_pdf(ok)
       /\ init' = [from |-> State, status |-> IF ok THEN "running" ELSE "raised",
                   cfg |-> IF ok THEN cfg ELSE NoInit.cfg,
                   before |-> Before]
       /\ pc' = IF ok THEN "init_split" ELSE "idle"
  /\ UNCHANGED <<program, pdf, text_chunks, vectorstore, qa_chain, collection, batch>>
  /\ UNCHANGED simple_vars

InitSplit ==
  /\ pc = "init_split"
  /\ split_text(init.cfg[1], init.cfg[2])
  /\ pc' = IF last'.err = "" THEN "init_vs" ELSE "idle"
  /\ init' = [init EXCEPT !.status = IF last'.err = "" THEN "running" ELSE "raised",
                          !.cfg = NoInit.cfg]
  /\ UNCHANGED <<program, pdf, documents, vectorstore, qa_chain, collection, batch>>
  /\ UNCHANGED simple_vars

InitCreate ==
  /\ pc = "init_vs"
  /\ \E accepts_empty \in BOOLEAN : create_vectorstore_begin(accepts_empty)
  /\ pc' = IF batch' # NoBatch THEN "vs_add"
           ELSE IF last'.err = "" THEN "init_qa" ELSE "idle"
  /\ init' = [init EXCEPT !.status = IF batch' # NoBatch \/ last'.err = ""
                                     THEN "running" ELSE "raised"]
  /\ UNCHANGED <<program, pdf, documents, text_chunks, qa_chain>>
  /\ UNCHANGED simple_vars

\* initialize returns without calling setup_qa_chain
InitSetupSkipped ==
  /\ pc = "init_qa"
  /\ last' = Outcome("initialize", "")
  /\ pc' = "idle"
  /\ init' = [init EXCEPT !.status = "returned", !.before = NoBefore]
  /\ UNCHANGED <<program, pdf, documents, text_chunks, vectorstore, collection, batch>>
  /\ UNCHANGED qa_chain
  /\ UNCHANGED simple_vars

InitSetup ==
  /\ pc = "init_qa"
  /\ setup_qa_chain
  /\ pc' = "idle"
  /\ init' = [init EXCEPT !.status = Status(last'.err),
                          !.before = IF last'.err = "" THEN NoBefore ELSE @]
  /\ UNCHANGED <<program, pdf, documents, text_chunks, vectorstore, collection, batch>>
  /\ UNCHANGED simple_vars

(* ---------- SimpleRAGPipeline ---------- *)
\* SimpleRAGPipeline(pdf_path, db_path): load, split, embed and store, build
\* the retriever; the loader or an embedding call may raise, and then no
\* object is constructed
SimpleInit ==
  /\ program = "rag.py"
  /\ simple_count < MaxSimple
  /\ LET chunks == SplitDocuments(pdf, DefaultChunkSize, DefaultChunkOverlap) IN
     /\ Len(collection) + Len(chunks) <= MaxEntries
     /\ \E ok \in BOOLEAN, accepts_empty \in BOOLEAN, n \in 0..Len(chunks) :
          LET err == IF ~ok THEN ErrLoader
                     ELSE IF chunks = <<>> /\ ~accepts_empty THEN ErrEmptyIds
                     ELSE IF n < Len(chunks) THEN ErrEmbedding ELSE ""
          IN /\ ~ok => n = 0
             /\ collection' = IF ok THEN AddDocuments(collection, SubSeq(chunks, 1, n))
                              ELSE collection
             /\ simple' = IF err = ""
                          THEN Some([vector_store |-> simple_count + 1, k |-> K])
                          ELSE simple
             /\ last' = Outcome("SimpleRAGPipeline", err)
  /\ simple_count' = simple_count + 1
  /\ UNCHANGED <<program, pdf, batch, pc, init>>
  /\ UNCHANGED rag_fields

\* with nothing retrieved the query returns at once, without the model
SimpleAnswerShortCircuit(question, out) ==
  LET docs == TopK(collection, question, Get(simple).k)
  IN IF docs = <<>>
     THEN [Outcome("SimpleRAGPipeline.query", "") EXCEPT
             !.question = question, !.retriever_calls = 1,
             !.response = Some(Response(question, "", docs))]
     ELSE Answered("SimpleRAGPipeline.query", docs, question, Prompt(docs, question), out)

\* what SimpleRAGPipeline.query computes
SimpleAnswer(question, out) ==
  LET docs == TopK(collection, question, Get(simple).k)
  IN Answered("SimpleRAGPipeline.query", docs, question, Prompt(docs, question), out)

\* SimpleRAGPipeline.query(question)
SimpleQuery ==
  /\ program = "rag.py"
  /\ ~IsNone(simple)
  /\ \E question \in Questions, out \in LlmOutcomes :
       last' = SimpleAnswer(question, out)
  /\ UNCHANGED <<program, pdf, collection, batch, pc, init>>
  /\ UNCHANGED rag_fields
  /\ UNCHANGED simple_vars

(* ---------- specifications ---------- *)
Next ==
  \/ LoadPdf
  \/ SplitTextCall
  \/ CreateVectorstore
  \/ VsAdd
  \/ VsFail
  \/ SetupQaChain
  \/ Query
  \/ Initialize
  \/ InitSplit
  \/ InitCreate
  \/ InitSetup
  \/ SimpleInit
  \/ SimpleQuery

\* one caller: every call returns before the next one is made
Spec == Init /\ [][Next]_vars

\* a second caller asks while the first one is inside initialize or
\* create_vectorstore
ConcurrentQuery ==
  /\ pc # "idle"
  /\ \E question \in Questions, out \in LlmOutcomes : query(question, out)
  /\ UNCHANGED <<program, pdf, collection, batch, pc, init>>
  /\ UNCHANGED rag_fields
  /\ UNCHANGED simple_vars

NextConc == Next \/ ConcurrentQuery

SpecConc == Init /\ [][NextConc]_vars

(* ---------- the splitter on every short page ---------- *)
MaxPageLen == 5
Chars == {"a", "b", " "}
PageTexts == UNION { [1..n -> Chars] : n \in 0..MaxPageLen }

\* (chunk_size, chunk_overlap) pairs that split the short pages
ChunkConfigs == { <<1, 0>>, <<2, 0>>, <<2, 1>>, <<3, 1>>, <<3, 2>>, <<4, 2>> }

\* a RAGPipeline on a one-page PDF
InitChunk ==
  /\ program = "rag_pipeline.py"
  /\ pdf \in { <<text>> : text \in PageTexts }
  /\ documents = None
  /\ text_chunks = None
  /\ vectorstore = None
  /\ qa_chain = None
  /\ collection = <<>>
  /\ batch = NoBatch
  /\ pc = "idle"
  /\ init = NoInit
  /\ last = Outcome("", "")
  /\ simple = None
  /\ simple_count = 0

SplitTextWide ==
  /\ program = "rag_pipeline.py" /\ pc = "idle"
  /\ \E cfg \in ChunkConfigs : split_text(cfg[1], cfg[2])
  /\ init' = NoInit
  /\ UNCHANGED <<program, pdf, documents, vectorstore, qa_chain, collection, batch, pc>>
  /\ UNCHANGED simple_vars

NextChunk == LoadPdf \/ SplitTextWide

SpecChunk == InitChunk /\ [][NextChunk]_vars

(* ---------- properties ---------- *)
\* C1: a query made while qa_chain is not set (Uninitialized, DocumentLoaded,
\* Chunked or Indexed) fails with the not-ready error, and neither the
\* retriever nor the generation model is invoked.
C1_QueryNotReady ==
  (last.op = "query" /\ State # "Ready") =>
     /\ last.err = ErrChainFirst
     /\ last.retriever_calls = 0
     /\ last.llm_calls = 0
     /\ last.response = None

C1_Witness ==
  last.op = "query" /\ State = "Indexed" /\ last.err = ErrChainFirst

\* C2: split_text with no documents, create_vectorstore with no text_chunks
\* and setup_qa_chain with no vectorstore each fail with their out-of-order
\* error and do not run: the attribute they would set, and the collection,
\* stay as they were.
C2_OutOfOrder ==
  [][ /\ (last'.op = "split_text" /\ IsNone(documents)) =>
           (last'.err = ErrLoadFirst /\ UNCHANGED text_chunks)
      /\ (last'.op \in {"create_vectorstore", "OpenAIEmbeddings"} /\ IsNone(text_chunks)) =>
           (last'.err = ErrSplitFirst /\ UNCHANGED <<vectorstore, collection, batch>>)
      /\ (last'.op = "setup_qa_chain" /\ IsNone(vectorstore)) =>
           (last'.err = ErrStoreFirst /\ UNCHANGED qa_chain) ]_vars

C2_Witness ==
  /\ last.op = "create_vectorstore" /\ last.err = ErrSplitFirst
  /\ ~IsNone(documents) /\ IsNone(text_chunks)

Rejections == {ErrLoadFirst, ErrSplitFirst, ErrStoreFirst, ErrChainFirst, ErrOverlap}

\* C3: a split_text, create_vectorstore, setup_qa_chain or query call that is
\* rejected by an out-of-order, not-ready or configuration error leaves
\* documents, text_chunks, the collection, vectorstore and qa_chain as they
\* were.
C3_RejectedChangesNothing ==
  [][ (/\ last'.op \in {"split_text", "create_vectorstore", "setup_qa_chain", "query"}
       /\ last'.err \in Rejections)
      => UNCHANGED <<documents, text_chunks, collection, vectorstore, qa_chain>> ]_vars

C3_Witness ==
  /\ last.op = "split_text" /\ last.err = ErrOverlap
  /\ ~IsNone(text_chunks) /\ Len(collection) > 0

\* C4: initialize on a fresh pipeline, while no step fails, is in
\* DocumentLoaded after load_pdf, Chunked after split_text (and while the
\* chunks are being stored), Indexed after create_vectorstore and Ready when
\* it returns; a query that follows is not rejected as not ready.
C4_InitializeInOrder ==
  init.from = "Uninitialized" =>
     /\ pc = "init_split" => State = "DocumentLoaded"
     /\ pc \in {"init_vs", "vs_add"} => State = "Chunked"
     /\ pc = "init_qa" => State = "Indexed"
     /\ init.status = "returned" => State = "Ready"
     /\ (init.status = "returned" /\ last.op = "query") => last.err # ErrChainFirst

C4_Witness ==
  /\ init.from = "Uninitialized" /\ init.status = "returned"
  /\ last.op = "query" /\ last.err = "" /\ Len(last.source_documents) > 0

IsPrefix(s, t) == Len(s) <= Len(t) /\ SubSeq(t, 1, Len(s)) = s

\* C5: during and after an initialize called on a Ready pipeline, qa_chain
\* stays set, and every step keeps the entries the collection held (the
\* collection only grows).
C5_Reentrant ==
  [][ (init'.from = "Ready" /\ init'.status # "none") =>
         (~IsNone(qa_chain') /\ IsPrefix(collection, collection')) ]_vars

C5_Witness ==
  /\ init.from = "Ready" /\ init.status = "returned"
  /\ Len(collection) > Len(Get(text_chunks)) /\ Len(Get(text_chunks)) > 0

Identity(entry) == <<entry.doc.page, entry.doc.offset>>

\* C6 (as claimed): the collection never holds two entries with the same
\* (source, offset) identity, so ingesting the same document again leaves
\* the entries unchanged.
C6_NoDuplicateIdentity ==
  \A i, j \in 1..Len(collection) :
     i # j => Identity(collection[i]) # Identity(collection[j])

AnswerOps == {"query", "SimpleRAGPipeline.query"}

\* C7: a query that retrieved returns at most k = 3 source documents, each
\* of them the document of an entry of the collection.
C7_RetrievalBounded ==
  (last.op \in AnswerOps /\ last.retriever_calls = 1) =>
     /\ Len(last.source_documents) <= K
     /\ \A i \in 1..Len(last.source_documents) :
          \E j \in 1..Len(collection) : collection[j].doc = last.source_documents[i]

C7_Witness ==
  /\ last.op = "query" /\ last.err = ""
  /\ Len(collection) > K /\ Len(last.source_documents) = K

\* C8 (as claimed): the retrieval of a query never reads the collection while
\* a batch of chunks is partly stored: it sees none or all of the chunks of
\* the batch being added.
C8_NoPartialBatch ==
  (last.op = "query" /\ last.retriever_calls = 1) =>
     (last.batch_done = 0 \/ last.batch_done = last.batch_total)

\* C9: a query that returns gives the generation model's output as result,
\* the retrieved top-k documents in retrieval order as source_documents, and
\* the question as query.
C9_Answer ==
  (last.op \in AnswerOps /\ last.err = "") =>
     /\ ~IsNone(last.response)
     /\ Get(last.response).result = last.llm_out
     /\ last.llm_out \in LLMOutputs
     /\ Get(last.response).source_documents = last.source_documents
     /\ Get(last.response).source_documents = TopK(collection, last.question, K)
     /\ Get(last.response).query = last.question

C9_Witness ==
  /\ last.op = "SimpleRAGPipeline.query" /\ last.err = "" /\ last.llm_out = "R2"
  /\ Len(last.source_documents) >= 2
  /\ last.source_documents[1] # last.source_documents[2]

RECURSIVE ContextStart(_, _)
\* where the i-th text starts in a context block with blank lines between
ContextStart(texts, i) ==
  IF i = 1 THEN 1 ELSE ContextStart(texts, i - 1) + Len(texts[i - 1]) + 2

\* ctx is the texts in order, a blank line (two line breaks) between
\* consecutive ones, and nothing else
IsContextOf(ctx, texts) ==
  IF texts = <<>> THEN ctx = <<>>
  ELSE /\ Len(ctx) = ContextStart(texts, Len(texts)) + Len(texts[Len(texts)]) - 1
       /\ \A i \in 1..Len(texts) :
            LET from == ContextStart(texts, i) IN
            /\ SubSeq(ctx, from, from + Len(texts[i]) - 1) = texts[i]
            /\ i < Len(texts) =>
                 /\ ctx[from + Len(texts[i])] = "\n"
                 /\ ctx[from + Len(texts[i]) + 1] = "\n"

\* C10: the prompt SimpleRAGPipeline.query sends is the template head, the
\* context block made of the retrieved chunks' texts in retrieval order with
\* a blank line between consecutive chunks, then the question part.
C10_PromptContext ==
  (last.op = "SimpleRAGPipeline.query" /\ last.llm_calls = 1) =>
     LET n == Len(last.prompt)
         q == Len(last.question)
     IN /\ n >= q + 3
        /\ last.prompt[1] = PromptHead
        /\ IsContextOf(SubSeq(last.prompt, 2, n - q - 2),
                       [i \in 1..Len(last.source_documents) |->
                          last.source_documents[i].page_content])
        /\ last.prompt[n - q - 1] = PromptQuestion
        /\ SubSeq(last.prompt, n - q, n - 1) = last.question
        /\ last.prompt[n] = PromptTail

C10_Witness ==
  /\ last.op = "SimpleRAGPipeline.query" /\ last.llm_calls = 1
  /\ Len(last.source_documents) = K
  /\ last.source_documents[1] # last.source_documents[K]

\* C11: when the retriever returns no chunks, SimpleRAGPipeline.query still
\* assembles the prompt, with an empty context block, invokes the generation
\* model with it, and returns the model's output.
C11_EmptyContextStillAsked ==
  (/\ last.op = "SimpleRAGPipeline.query"
   /\ last.retriever_calls = 1
   /\ last.source_documents = <<>>) =>
     /\ last.llm_calls = 1
     /\ last.prompt = <<PromptHead, PromptQuestion>> \o last.question \o <<PromptTail>>
     /\ last.err \in {"", ErrGeneration}
     /\ last.err = "" =>
          (last.llm_out \in LLMOutputs /\ Get(last.response).result = last.llm_out)

C11_Witness ==
  /\ last.op = "SimpleRAGPipeline.query" /\ last.source_documents = <<>>
  /\ collection = <<>> /\ last.llm_calls = 1 /\ last.llm_out = "R1"

\* C12: split_text called with chunk_overlap >= chunk_size, equality included,
\* raises the configuration error and leaves text_chunks as it was.
C12_OverlapNotBelowSizeRejected ==
  (/\ last.op = "split_text"
   /\ ~IsNone(documents)
   /\ last.cfg[2] >= last.cfg[1]) => last.err = ErrOverlap

\* the texts of the chunks of page p, in order
ChunkTextsOfPage(chunks, p) ==
  LET own == SelectSeq(chunks, LAMBDA c : c.page = p)
  IN [i \in 1..Len(own) |-> own[i].page_content]

\* positions where the last chunk can start when every chunk is placed as a
\* contiguous substring of text, none starting before the one before it, with
\* consecutive chunks sharing at most most characters and, when exact holds,
\* every pair before the final one sharing exactly most characters
Placements(text, texts, most, exact) ==
  LET n == Len(texts)
      Shared(q, i, p) == IF q + Len(texts[i]) > p THEN q + Len(texts[i]) - p ELSE 0
      S[i \in 1..n] ==
        IF i = 1 THEN { p \in 1..Len(text) : MatchAt(text, texts[1], p) }
        ELSE { p \in 1..Len(text) :
                 /\ MatchAt(text, texts[i], p)
                 /\ \E q \in S[i - 1] :
                      /\ q <= p
                      /\ Shared(q, i - 1, p) <= most
                      /\ (exact /\ i < n) => Shared(q, i - 1, p) = most }
  IN IF n = 0 THEN {0} ELSE S[n]

\* the split that produced text_chunks ran with chunk_overlap < chunk_size
SplitDone ==
  /\ last.op = "split_text" /\ last.err = ""
  /\ last.cfg[2] < last.cfg[1]

C14_GenerationOnceNoRetry ==
  [][last'.op \in AnswerOps =>
       /\ last'.llm_calls <= 1
       /\ last'.err = ErrGeneration =>
            /\ last'.llm_calls = 1
            /\ last'.response = None
            /\ collection' = collection
            /\ State' = State
            /\ UNCHANGED <<documents, text_chunks, vectorstore, qa_chain, simple>>]_vars

C14_Witness ==
  /\ last.op \in AnswerOps
  /\ last.err = ErrGeneration
  /\ last.llm_calls = 1
  /\ last.source_documents # <<>>
  /\ last.response = None

\* C15: when the document yields zero chunks, create_vectorstore succeeds on
\* the empty chunk list (so that the pipeline can go on to Ready), and a query
\* over the empty collection retrieves nothing rather than failing.
C15_EmptyIndexIsNotAnError ==
  /\ (/\ last.op = "create_vectorstore"
      /\ ~IsNone(text_chunks)
      /\ Get(text_chunks) = <<>>) => (last.err = "" /\ ~IsNone(vectorstore))
  /\ (/\ last.op = "query"
      /\ State = "Ready"
      /\ collection = <<>>) => (last.retriever_calls = 1 /\ last.source_documents = <<>>)

\* C16: when initialize raises, whichever of its steps failed, the collection
\* holds no entry it did not hold when initialize was called, and documents,
\* text_chunks, vectorstore and qa_chain are what they were at that time.
C16_FailedInitializeLeavesNothing ==
  init.status = "raised" =>
    /\ Len(collection) = init.before.entries
    /\ documents = init.before.documents
    /\ text_chunks = init.before.text_chunks
    /\ vectorstore = init.before.vectorstore
    /\ qa_chain = init.before.qa_chain

\* C17: a query changes none of documents, text_chunks, vectorstore,
\* qa_chain or the contents of the collection; what it retrieves is the
\* top-k of the collection as it is at the time of the call, so a query that
\* directly follows a query of the same question retrieves the same chunks.
C17_AskReadOnlyNoMemory ==
  [][last'.op \in AnswerOps =>
       /\ UNCHANGED <<documents, text_chunks, vectorstore, qa_chain, collection, simple>>
       /\ last'.retriever_calls = 1 =>
            last'.source_documents = TopK(collection', last'.question, K)
       /\ (/\ last.op \in AnswerOps
           /\ last.retriever_calls = 1
           /\ last'.retriever_calls = 1
           /\ last'.question = last.question) =>
            last'.source_documents = last.source_documents]_vars

C17_Witness ==
  /\ last.op \in AnswerOps
  /\ last.err = ""
  /\ Len(collection) > K
  /\ last.source_documents = TopK(collection, last.question, K)
  /\ last.source_documents # TopK(collection, CHOOSE q \in Questions : q # last.question, K)

\* C18: in every reachable state qa_chain set implies vectorstore set,
\* vectorstore set implies text_chunks set, text_chunks set implies documents
\* set; and no step, of a call that returns or of one that raises, unsets a
\* field that was set.
C18_NestedNeverRevoked ==
  /\ [](/\ ~IsNone(qa_chain) => ~IsNone(vectorstore)
        /\ ~IsNone(vectorstore) => ~IsNone(text_chunks)
        /\ ~IsNone(text_chunks) => ~IsNone(documents))
  /\ [][/\ ~IsNone(documents) => ~IsNone(documents')
        /\ ~IsNone(text_chunks) => ~IsNone(text_chunks')
        /\ ~IsNone(vectorstore) => ~IsNone(vectorstore')
        /\ ~IsNone(qa_chain) => ~IsNone(qa_chain')]_vars

C18_Witness ==
  /\ State = "Ready"
  /\ last.op = "load_pdf" /\ last.err = ErrLoader
  /\ ~IsNone(documents)

\* C19: a query that succeeds has retrieved through the pipeline's current
\* vectorstore, the one assigned by the most recent successful
\* create_vectorstore, also when create_vectorstore was run again on a Ready
\* pipeline and setup_qa_chain was not.
C19_QueryUsesCurrentStore ==
  (last.op = "query" /\ last.err = "") =>
     Get(qa_chain).retriever = Get(vectorstore)

====
